---- MODULE Spec2Model ----
(***************************************************************************)
(* Model of the image-tagging pipeline: the SQLite store of db_manager.py, *)
(* the tag extraction and normalization of image_analyzer.py and the       *)
(* per-image orchestration of image_pipeline.py.                           *)
(*                                                                         *)
(* Strings that the code transforms (raw tags) are sequences of one-       *)
(* character strings; a file path is a record of its stem and suffix.      *)
(***************************************************************************)
EXTENDS Integers, Sequences, FiniteSets, TLC

VARIABLES images, tags, image_tags, sqlite_sequence, passes, last, workers

vars == <<images, tags, image_tags, sqlite_sequence, passes, last, workers>>

-----------------------------------------------------------------------------
(* Bounds of the exploration.                                              *)

\* the passes recorded in the store (the sum of process_count) are explored up
\* to this value
MaxPasses == 2
\* the AUTOINCREMENT counter of the images table is explored up to this value
MaxImageSeq == 2
\* the AUTOINCREMENT counter of the tags table is explored up to this value
MaxTagSeq == 3

-----------------------------------------------------------------------------
(* Values.                                                                 *)

\* Python's None as a returned image id (row ids start at 1)
None == 0

\* no row / no value where a record is expected
NoRow == [id |-> None]

Range(s) == {s[i] : i \in DOMAIN s}

Max(S) == CHOOSE x \in S : \A y \in S : y <= x

-----------------------------------------------------------------------------
(* Normalizer: tag.replace('_', ' ') then tag.title()                      *)

LowerLetters == <<"a", "b", "e", "p", "t">>
UpperLetters == <<"A", "B", "E", "P", "T">>

IsLower(c) == \E i \in DOMAIN LowerLetters : LowerLetters[i] = c
IsUpper(c) == \E i \in DOMAIN UpperLetters : UpperLetters[i] = c
IsCased(c) == IsLower(c) \/ IsUpper(c)

ToUpper(c) ==
    IF IsLower(c)
    THEN UpperLetters[CHOOSE i \in DOMAIN LowerLetters : LowerLetters[i] = c]
    ELSE c

ToLower(c) ==
    IF IsUpper(c)
    THEN LowerLetters[CHOOSE i \in DOMAIN UpperLetters : UpperLetters[i] = c]
    ELSE c

\* a replacement whose result is dropped: the tag keeps its underscores
replace_nothing(s) == s

\* str.replace('_', ' ')
replace_underscores(s) == [i \in DOMAIN s |-> IF s[i] = "_" THEN " " ELSE s[i]]

\* str.title(): a cased character is upper-cased when the character before it
\* is not cased (or there is none) and lower-cased otherwise
title(s) ==
    [i \in DOMAIN s |->
        IF i > 1 /\ IsCased(s[i - 1]) THEN ToLower(s[i]) ELSE ToUpper(s[i])]

\* the two list comprehensions of analyze_image applied to one tag
normalize_tag(s) == title(replace_underscores(s))

-----------------------------------------------------------------------------
(* Extractor: _extract_json_from_text and the collection loop of           *)
(* analyze_image.                                                          *)
(*                                                                         *)
(* The model text is the sequence of the brace-delimited fragments that    *)
(* re.finditer yields, left to right.  A fragment is described by what the *)
(* code does with it:                                                      *)
(*   form = "json"        json.loads returns a dict                        *)
(*   form = "broken"      json.loads raises JSONDecodeError                *)
(*   form = "bad_escape"  the fragment holds "\\n" and                     *)
(*                        decode('unicode-escape') raises                  *)
(*   tags = "absent" | "not_list" | "list", elems the list's elements      *)
(* An element of a "tags" list is a string (str), a number (int) or a      *)
(* nested list (list).                                                     *)

Str(chars) == [kind |-> "str", chars |-> chars]
IntElem    == [kind |-> "int", chars |-> <<>>]
ListElem   == [kind |-> "list", chars |-> <<>>]

JsonTags(elems) == [form |-> "json", tags |-> "list", elems |-> elems]
JsonNoTags      == [form |-> "json", tags |-> "absent", elems |-> <<>>]
JsonTagsNotList == [form |-> "json", tags |-> "not_list", elems |-> <<>>]
Broken          == [form |-> "broken", tags |-> "absent", elems |-> <<>>]
BadEscape       == [form |-> "bad_escape", tags |-> "absent", elems |-> <<>>]

\* the loop of _extract_json_from_text ends with an exception when it meets a
\* bad_escape fragment: UnicodeDecodeError is not caught by
\* `except json.JSONDecodeError`
extract_raises(text) == \E i \in DOMAIN text : text[i].form = "bad_escape"

\* json_objects: the fragments that parse and whose 'tags' is a list
RECURSIVE accepted_fragments(_)
accepted_fragments(text) ==
    IF text = <<>> THEN <<>>
    ELSE LET f == Head(text)
             rest == accepted_fragments(Tail(text))
         IN  IF f.form = "json" /\ f.tags = "list" THEN <<f>> \o rest ELSE rest

\* _extract_json_from_text(text): [raised, json_objects]
extract_json_from_text(text) ==
    IF extract_raises(text)
    THEN [raised |-> TRUE, json_objects |-> <<>>]
    ELSE [raised |-> FALSE, json_objects |-> accepted_fragments(text)]

\* all_tags after the update loop: the set of the elements of every object
collect_all_tags(json_objects) ==
    UNION {Range(json_objects[i].elems) : i \in DOMAIN json_objects}

\* set.update raises TypeError on an unhashable element (a nested list)
collect_raises(json_objects) ==
    \E i \in DOMAIN json_objects :
        \E e \in Range(json_objects[i].elems) : e.kind = "list"

\* tag.replace raises AttributeError on an element that is not a str
normalize_raises(all_tags) == \E e \in all_tags : e.kind # "str"

\* the orders in which list(all_tags) may enumerate the set
Orderings(S) ==
    {o \in [1..Cardinality(S) -> S] : \A e \in S : \E i \in DOMAIN o : o[i] = e}

\* the two list comprehensions over the listed tags
normalize_tags(listed) == [i \in DOMAIN listed |-> normalize_tag(listed[i].chars)]

(* The reply of the model collaborator to requests.post:                   *)
(*   status "ok" with the text of the "response" field, or                 *)
(*   "no_response_field" (response_json.get("response") is None), or      *)
(*   a requests exception: "timeout", "http_error".                        *)
Reply(status, text) == [status |-> status, text |-> text]

request_raises(reply) == reply.status \in {"timeout", "http_error"}

\* analyze_image that logs an exception and returns no tags instead of
\* raising it again
analyze_image_swallowing(reply, order) ==
    IF request_raises(reply) \/ reply.status = "no_response_field"
    THEN [raised |-> FALSE, tags |-> <<>>]
    ELSE LET ex == extract_json_from_text(reply.text)
         IN  IF ex.raised \/ collect_raises(ex.json_objects)
                \/ normalize_raises(collect_all_tags(ex.json_objects))
             THEN [raised |-> FALSE, tags |-> <<>>]
             ELSE [raised |-> FALSE, tags |-> normalize_tags(order)]

\* analyze_image: [raised, tags] for a reply and an enumeration order of
\* the set all_tags (used only when nothing raises)
analyze_image(reply, order) ==
    IF request_raises(reply) \/ reply.status = "no_response_field"
    THEN [raised |-> TRUE, tags |-> <<>>]
    ELSE LET ex == extract_json_from_text(reply.text)
         IN  IF ex.raised \/ collect_raises(ex.json_objects)
                \/ normalize_raises(collect_all_tags(ex.json_objects))
             THEN [raised |-> TRUE, tags |-> <<>>]
             ELSE [raised |-> FALSE, tags |-> normalize_tags(order)]

\* the course analyze_image takes on a reply: the statement that raises, or
\* how the tag set came about
analysis_course(reply) ==
    IF request_raises(reply) THEN "request_raised"
    ELSE IF reply.status = "no_response_field" THEN "finditer_raised"
    ELSE LET ex == extract_json_from_text(reply.text)
         IN  IF ex.raised THEN "unescape_raised"
             ELSE IF collect_raises(ex.json_objects) THEN "update_raised"
             ELSE IF normalize_raises(collect_all_tags(ex.json_objects))
                  THEN "replace_raised"
             ELSE IF reply.text = <<>> THEN "no_fragment"
             ELSE IF ex.json_objects = <<>> THEN "no_accepted_fragment"
             ELSE IF Len(ex.json_objects) < Len(reply.text) THEN "some_accepted"
             ELSE "all_accepted"

\* the enumeration orders analyze_image may use for a reply
AnalysisOrders(reply) ==
    IF analyze_image(reply, <<>>).raised THEN {<<>>}
    ELSE Orderings(collect_all_tags(extract_json_from_text(reply.text).json_objects))

-----------------------------------------------------------------------------
(* The store of db_manager.py.  A database value is the record of its      *)
(* three tables and of sqlite_sequence, the AUTOINCREMENT counters.        *)
(*   images rows:     [id, file_path, md5_hash, original_filename,         *)
(*                     created_at, process_count]                          *)
(*   tags rows:       [id, name]                                           *)
(*   image_tags rows: [image_id, tag_id, occurrence_count]                 *)

Database(i, t, it, sq) ==
    [images |-> i, tags |-> t, image_tags |-> it, sqlite_sequence |-> sq]

\* the schema of _init_database on a new file: three empty tables
init_database == Database({}, {}, {}, [images |-> 0, tags |-> 0])

\* the insert written as INSERT OR REPLACE: the rows that hold the file_path
\* or the md5_hash are deleted and the new row is inserted
insert_or_replace_image(db, file_path, md5_hash, original_filename, now) ==
    LET rowid == db.sqlite_sequence.images + 1
        sq == [db.sqlite_sequence EXCEPT !.images = rowid]
        kept == {r \in db.images :
                    r.file_path # file_path /\ r.md5_hash # md5_hash}
        row == [id |-> rowid, file_path |-> file_path, md5_hash |-> md5_hash,
                original_filename |-> original_filename, created_at |-> now,
                process_count |-> 0]
    IN  [db |-> [db EXCEPT !.images = kept \cup {row}, !.sqlite_sequence = sq],
         rowcount |-> 1, lastrowid |-> rowid]

\* INSERT OR IGNORE INTO images: file_path and md5_hash are both UNIQUE, so
\* the row is ignored when either is taken.  AUTOINCREMENT draws a rowid for
\* every attempt, ignored or not.  process_count DEFAULT 0.
\* [db, rowcount, lastrowid]
insert_or_ignore_image(db, file_path, md5_hash, original_filename, now) ==
    LET rowid == db.sqlite_sequence.images + 1
        sq == [db.sqlite_sequence EXCEPT !.images = rowid]
        conflict == \E r \in db.images :
                        r.file_path = file_path \/ r.md5_hash = md5_hash
        row == [id |-> rowid, file_path |-> file_path, md5_hash |-> md5_hash,
                original_filename |-> original_filename, created_at |-> now,
                process_count |-> 0]
    IN  IF conflict
        THEN [db |-> [db EXCEPT !.sqlite_sequence = sq],
              rowcount |-> 0, lastrowid |-> None]
        ELSE [db |-> [db EXCEPT !.images = @ \cup {row}, !.sqlite_sequence = sq],
              rowcount |-> 1, lastrowid |-> rowid]

\* SELECT ... FROM images WHERE md5_hash = ?  then fetchone()
select_image_by_hash(db, md5_hash) ==
    IF \E r \in db.images : r.md5_hash = md5_hash
    THEN CHOOSE r \in db.images : r.md5_hash = md5_hash
    ELSE NoRow

\* add_image with a plain INSERT: a conflicting row raises IntegrityError
add_image_plain_insert(db, file_path, md5_hash, original_filename, now) ==
    LET ins == insert_or_ignore_image(db, file_path, md5_hash,
                                      original_filename, now)
    IN  IF ins.rowcount = 0 THEN [db |-> db, ret |-> None, raised |-> TRUE]
        ELSE [db |-> ins.db, ret |-> ins.lastrowid, raised |-> FALSE]

\* add_image: [db, ret, raised].  When the insert is ignored and no row has
\* the hash, fetchone() is None and None[0] raises TypeError; the connection
\* context manager then rolls the transaction back.
add_image(db, file_path, md5_hash, original_filename, now) ==
    LET ins == insert_or_ignore_image(db, file_path, md5_hash, original_filename, now)
        found == select_image_by_hash(ins.db, md5_hash)
    IN  IF ins.rowcount = 0
        THEN IF found = NoRow
             THEN [db |-> db, ret |-> None, raised |-> TRUE]
             ELSE [db |-> ins.db, ret |-> found.id, raised |-> FALSE]
        ELSE [db |-> ins.db, ret |-> ins.lastrowid, raised |-> FALSE]

\* get_image_by_hash: the row's dict, or None (NoRow)
get_image_by_hash(db, md5_hash) == select_image_by_hash(db, md5_hash)

\* the UPDATE without its WHERE clause: every row is incremented
increment_process_count_all_rows(db, image_id) ==
    [db EXCEPT !.images = {[r EXCEPT !.process_count = @ + 1] : r \in @}]

\* UPDATE images SET process_count = process_count + 1 WHERE id = ?
increment_process_count(db, image_id) ==
    [db EXCEPT !.images =
        {IF r.id = image_id
         THEN [r EXCEPT !.process_count = @ + 1] ELSE r : r \in @}]

\* a tags table whose name is not UNIQUE: every insert adds a row
insert_tag_name_not_unique(db, tag) ==
    LET rowid == db.sqlite_sequence.tags + 1
    IN  [db |-> [db EXCEPT !.tags = @ \cup {[id |-> rowid, name |-> tag]},
                           !.sqlite_sequence.tags = rowid],
         tag_id |-> rowid]

\* INSERT OR IGNORE INTO tags (name) then SELECT id: [db, tag_id]
insert_or_get_tag(db, tag) ==
    LET rowid == db.sqlite_sequence.tags + 1
        sq == [db.sqlite_sequence EXCEPT !.tags = rowid]
    IN  IF \E t \in db.tags : t.name = tag
        THEN [db |-> [db EXCEPT !.sqlite_sequence = sq],
              tag_id |-> (CHOOSE t \in db.tags : t.name = tag).id]
        ELSE [db |-> [db EXCEPT !.tags = @ \cup {[id |-> rowid, name |-> tag]},
                                !.sqlite_sequence = sq],
              tag_id |-> rowid]

\* INSERT INTO image_tags ... VALUES (?, ?, 1)
\* ON CONFLICT(image_id, tag_id) DO UPDATE SET occurrence_count = occurrence_count + 1
upsert_image_tag(db, image_id, tag_id) ==
    IF \E x \in db.image_tags : x.image_id = image_id /\ x.tag_id = tag_id
    THEN [db EXCEPT !.image_tags =
            {IF x.image_id = image_id /\ x.tag_id = tag_id
             THEN [x EXCEPT !.occurrence_count = @ + 1] ELSE x : x \in @}]
    ELSE [db EXCEPT !.image_tags =
            @ \cup {[image_id |-> image_id, tag_id |-> tag_id,
                     occurrence_count |-> 1]}]

\* the body of `for tag in tags` for one tag
add_one_tag(db, image_id, tag) ==
    LET got == insert_or_get_tag(db, tag)
    IN  upsert_image_tag(got.db, image_id, got.tag_id)

\* the loop `for tag in tags`, in list order
RECURSIVE add_tag_list(_, _, _)
add_tag_list(db, image_id, tag_list) ==
    IF tag_list = <<>> THEN db
    ELSE add_tag_list(add_one_tag(db, image_id, Head(tag_list)), image_id,
                      Tail(tag_list))

\* add_tags that returns early on an empty tag list, counting no pass
add_tags_skipping_empty(db, image_id, tag_list) ==
    IF tag_list = <<>> THEN db
    ELSE add_tag_list(increment_process_count(db, image_id), image_id, tag_list)

\* add_tags that records a pass without tags under the empty tag name
add_tags_marking_empty(db, image_id, tag_list) ==
    add_tag_list(increment_process_count(db, image_id), image_id,
                 IF tag_list = <<>> THEN <<(<<>>)>> ELSE tag_list)

\* add_tags: the database after the committed transaction
add_tags(db, image_id, tag_list) ==
    add_tag_list(increment_process_count(db, image_id), image_id, tag_list)

-----------------------------------------------------------------------------
(* Orchestrator: image_pipeline.py                                         *)

ImageDir == "images"

\* str(image_path) and image_path.name of the path image_dir/stem+suffix
path_str(path) == <<ImageDir, "/", path.stem, path.suffix>>
path_name(path) == <<path.stem, path.suffix>>

\* get_hash_from_filename: image_path.stem
get_hash_from_filename(path) == path.stem

\* a lookup after which process_image returns the id of a registered image at
\* once, without a further pass
after_lookup_skipping_seen(existing_image) ==
    IF existing_image # NoRow
    THEN [pc |-> "returned", image_id |-> existing_image.id,
          ret |-> existing_image.id]
    ELSE [pc |-> "add_image", image_id |-> None, ret |-> None]

\* process_image after get_image_by_hash: `if existing_image:` takes the id of
\* the row and goes on to the analysis, the else branch goes on to add_image:
\* [pc, image_id, ret]
after_lookup(existing_image) ==
    IF existing_image # NoRow
    THEN [pc |-> "analyze", image_id |-> existing_image.id, ret |-> None]
    ELSE [pc |-> "add_image", image_id |-> None, ret |-> None]

\* an exception handler that returns the id the call has resolved
process_image_returns_resolved_id(raised, image_id) == image_id

\* what process_image returns: image_id at the end of the try block, None from
\* the handler of an exception raised inside it
process_image_returns(raised, image_id) ==
    IF raised THEN None ELSE image_id

-----------------------------------------------------------------------------
(* Inputs.                                                                 *)

\* the files of the image directory are named <md5>.jpg or <md5>.jpeg
Stems == {"h1", "h2"}
Suffixes == {".jpg", ".jpeg"}
Path(stem, suffix) == [stem |-> stem, suffix |-> suffix]
\* one image stored twice (h1.jpg, h1.jpeg) and another image (h2.jpg)
Paths == {Path("h1", ".jpg"), Path("h1", ".jpeg"), Path("h2", ".jpg")}

\* CURRENT_TIMESTAMP values; the clock never runs behind a stored created_at
Times == {1, 2}
NowChoices(db) == {t \in Times : \A r \in db.images : r.created_at <= t}
\* the time is read only by an insert; one value stands for all when the hash
\* is registered and nothing can be inserted
InsertTimes(db, md5_hash) ==
    IF \E r \in db.images : r.md5_hash = md5_hash
    THEN {Max(NowChoices(db))} ELSE NowChoices(db)

\* raw tags of the model: "a_b" and "A B" share the canonical form "A B"
Raw_a_b == Str(<<"a", "_", "b">>)
Raw_A_B == Str(<<"A", " ", "B">>)
Raw_pet == Str(<<"p", "e", "t">>)

\* texts with no fragment, one fragment, or two fragments
Texts ==
    {<<>>,
     <<Broken>>, <<JsonNoTags>>, <<BadEscape>>,
     <<JsonTags(<<>>)>>, <<JsonTags(<<Raw_a_b>>)>>, <<JsonTags(<<Raw_pet>>)>>,
     <<JsonTags(<<Raw_a_b, Raw_A_B>>)>>, <<JsonTags(<<Raw_pet, IntElem>>)>>,
     <<JsonTags(<<Raw_a_b>>), JsonTags(<<Raw_A_B>>)>>,
     <<Broken, JsonTags(<<Raw_pet>>)>>}

Replies ==
    {Reply("ok", t) : t \in Texts} \cup
    {Reply(st, <<>>) : st \in {"timeout", "http_error"}}

\* file paths, hashes and original filenames passed to add_image by a direct
\* caller: any combination of two paths, two hashes and two names
DirectPaths == {Path("h1", ".jpg"), Path("h2", ".jpg")}

\* tag lists passed to add_tags by a direct caller
DirectTagLists == {<<>>, <<normalize_tag(Raw_a_b.chars)>>}

\* image ids passed to add_tags by a direct caller: the registered ids and
\* one id that no row has
DirectImageIds(db) == {r.id : r \in db.images} \cup {db.sqlite_sequence.images + 1}

-----------------------------------------------------------------------------
(* State.                                                                  *)
(*   images, tags, image_tags, sqlite_sequence: the database file          *)
(*   passes: the log of the completed passes (add_tags calls on a          *)
(*           registered image): [image_id, n, tagset]                      *)
(*   last:   the last call, its arguments, the course its analysis took     *)
(*           and its outcome                                               *)
(*   workers: the process_image call each pipeline process is in: how far *)
(*           it got (pc), its file, its local variables and its outcome     *)
(*                                                                         *)
(* A process_image call is not one step.  Every DatabaseManager method     *)
(* opens its own connection and commits its own transaction, and between   *)
(* add_image and add_tags the call waits for the reply of the model, so    *)
(* the state each transaction commits is there for every other connection  *)
(* to read and to change.  A call is the steps                              *)
(*   Lookup           get_image_by_hash                                    *)
(*   Register         add_image, when the lookup found nothing             *)
(*   AnalyzeAndStore  analyze_image, which touches no shared state, then   *)
(*                    add_tags and the return                              *)

DB == Database(images, tags, image_tags, sqlite_sequence)

Call(op, file_path, md5_hash, original_filename, analysis, image_id, tag_list,
     ret, raised, stage, seen) ==
    [op |-> op, file_path |-> file_path, md5_hash |-> md5_hash,
     original_filename |-> original_filename, analysis |-> analysis,
     image_id |-> image_id, tags |-> tag_list, ret |-> ret, raised |-> raised,
     stage |-> stage, seen |-> seen]

NoCall == Call("none", <<>>, "", <<>>, "", None, <<>>, None, FALSE, "", FALSE)

PassesOf(image_id) == {p \in passes : p.image_id = image_id}

\* the log after one more completed pass of a registered image
LogPass(db, image_id, tag_list) ==
    IF \E r \in db.images : r.id = image_id
    THEN passes \cup {[image_id |-> image_id,
                       n |-> Cardinality(PassesOf(image_id)) + 1,
                       tagset |-> Range(tag_list)]}
    ELSE passes

RECURSIVE TotalProcessCount(_)
TotalProcessCount(rows) ==
    IF rows = {} THEN 0
    ELSE LET r == CHOOSE r \in rows : TRUE
         IN  r.process_count + TotalProcessCount(rows \ {r})

\* the part of the state space that is explored
Bounded(db) ==
    /\ db.sqlite_sequence.images <= MaxImageSeq
    /\ db.sqlite_sequence.tags <= MaxTagSeq
    /\ TotalProcessCount(db.images) <= MaxPasses

Store(db) ==
    /\ images' = db.images
    /\ tags' = db.tags
    /\ image_tags' = db.image_tags
    /\ sqlite_sequence' = db.sqlite_sequence

\* the pipeline processes that share the database file
Workers == {1, 2}

\* one process: the pipeline run alone
PipelineWorkers == {1}

NoPath == Path("", "")

\* no storage error met; a met one is <<k, n>>: after k of the n tags
NoFault == <<>>

\* a worker outside a process_image call, before its first one
IdleWorker ==
    [pc |-> "idle", path |-> NoPath, image_id |-> None, called_add |-> FALSE,
     inserted |-> FALSE, add_raised |-> FALSE, analysis |-> "", tags |-> <<>>,
     fault |-> NoFault, ret |-> None]

Init ==
    /\ images = init_database.images
    /\ tags = init_database.tags
    /\ image_tags = init_database.image_tags
    /\ sqlite_sequence = init_database.sqlite_sequence
    /\ passes = {}
    /\ last = NoCall
    /\ workers = [w \in Workers |-> IdleWorker]

\* worker w starts process_image(path): the lookup by hash
LookupFile(w, path) ==
    /\ workers[w].pc \in {"idle", "returned"}
    /\ \E existing_image \in
             {get_image_by_hash(DB, get_hash_from_filename(path))} :
        \E next \in {after_lookup(existing_image)} :
          workers' = [workers EXCEPT ![w] =
              [pc |-> next.pc, path |-> path, image_id |-> next.image_id,
               called_add |-> FALSE, inserted |-> FALSE,
               add_raised |-> FALSE, analysis |-> "", tags |-> <<>>,
               fault |-> NoFault, ret |-> next.ret]]
    /\ UNCHANGED <<images, tags, image_tags, sqlite_sequence, passes, last>>

\* ImagePipeline.process_image(image_path) is called on any file
Lookup(w) == \E path \in Paths : LookupFile(w, path)

\* worker w, having found no row, calls add_image; the insert reads the
\* clock
Register(w) ==
    /\ workers[w].pc = "add_image"
    /\ \E path \in {workers[w].path} :
        \E now \in InsertTimes(DB, get_hash_from_filename(path)) :
         \E r \in {add_image(DB, path_str(path), get_hash_from_filename(path),
                             path_name(path), now)} :
            /\ Bounded(r.db)
            /\ Store(r.db)
            /\ workers' = [workers EXCEPT ![w] =
                  [@ EXCEPT !.pc = IF r.raised THEN "returned" ELSE "analyze",
                            !.image_id = r.ret,
                            !.called_add = TRUE,
                            !.inserted = r.db.images # images,
                            !.add_raised = r.raised]]
    /\ UNCHANGED <<passes, last>>

\* worker w analyzes its image, the model answering with one of the replies,
\* stores the tags and returns
AnalyzeAndStore(w, replies) ==
    /\ workers[w].pc = "analyze"
    /\ \E reply \in replies :
        \E order \in AnalysisOrders(reply) :
         \E tags_data \in {analyze_image(reply, order)} :
          \E db \in {IF tags_data.raised THEN DB
                     ELSE add_tags(DB, workers[w].image_id, tags_data.tags)} :
            /\ Bounded(db)
            /\ Store(db)
            /\ passes' = IF tags_data.raised THEN passes
                         ELSE LogPass(db, workers[w].image_id, tags_data.tags)
            /\ workers' = [workers EXCEPT ![w] =
                  [@ EXCEPT !.pc = "returned",
                            !.analysis = analysis_course(reply),
                            !.tags = IF tags_data.raised THEN <<>>
                                     ELSE tags_data.tags,
                            !.ret = process_image_returns(tags_data.raised,
                                                          workers[w].image_id)]]
    /\ UNCHANGED last

\* DatabaseManager.add_image(file_path, md5_hash, original_filename)
AddImage ==
    \E p \in DirectPaths, md5_hash \in Stems, q \in DirectPaths :
      \E now \in InsertTimes(DB, md5_hash) :
        LET r == add_image(DB, path_str(p), md5_hash, path_name(q), now)
        IN  /\ Bounded(r.db)
            /\ Store(r.db)
            /\ passes' = passes
            /\ last' = Call("add_image", path_str(p), md5_hash, path_name(q),
                            "", r.ret, <<>>, r.ret, r.raised, "",
                            get_image_by_hash(DB, md5_hash) # NoRow)
            /\ workers' = workers

\* DatabaseManager.add_tags(image_id, tags)
AddTags ==
    \E image_id \in DirectImageIds(DB), tag_list \in DirectTagLists :
        LET db == add_tags(DB, image_id, tag_list)
        IN  /\ Bounded(db)
            /\ Store(db)
            /\ passes' = LogPass(db, image_id, tag_list)
            /\ last' = Call("add_tags", <<>>, "", <<>>, "", image_id,
                            tag_list, None, FALSE, "",
                            \E r \in images : r.id = image_id)
            /\ workers' = workers

\* every write to the database is a call of add_image or add_tags
Next == AddImage \/ AddTags

\* the database under any sequence of calls of the DatabaseManager operations
Spec == Init /\ [][Next]_vars

\* the database under the pipeline run alone: every call is a process_image
\* call, and the calls follow one another
PipelineNext ==
    \E w \in PipelineWorkers :
        Lookup(w) \/ Register(w) \/ AnalyzeAndStore(w, Replies)

PipelineSpec == Init /\ [][PipelineNext]_vars

-----------------------------------------------------------------------------
(* Readings of the database used by the properties.                        *)

\* occurrence_count of the (image, tag name) pair, 0 when it has no row
OccurrenceCount(tag_rows, image_tag_rows, image_id, name) ==
    LET hits == {x \in image_tag_rows :
                    /\ x.image_id = image_id
                    /\ \E t \in tag_rows : t.id = x.tag_id /\ t.name = name}
    IN  IF hits = {} THEN 0 ELSE (CHOOSE x \in hits : TRUE).occurrence_count

\* process_count of the image, 0 when it has no row
ProcessCount(image_rows, image_id) ==
    LET hits == {r \in image_rows : r.id = image_id}
    IN  IF hits = {} THEN 0 ELSE (CHOOSE r \in hits : TRUE).process_count

\* the names of the tags table
TagNames(tag_rows) == {t.name : t \in tag_rows}

\* the process of the pipeline run alone
Pipeline == CHOOSE w \in PipelineWorkers : TRUE

\* the process_image call of a worker as a call record: "process_image" once
\* it has returned, "calling" while it runs; stage is the stage whose
\* exception was caught, or "done"; seen tells that the lookup found the row
CallOf(wk) ==
    Call(IF wk.pc = "returned" THEN "process_image"
         ELSE IF wk.pc = "idle" THEN "none" ELSE "calling",
         path_str(wk.path), get_hash_from_filename(wk.path),
         path_name(wk.path), wk.analysis, wk.image_id, wk.tags, wk.ret, FALSE,
         IF wk.pc # "returned" THEN ""
         ELSE IF wk.add_raised THEN "add_image"
         ELSE IF wk.fault # NoFault THEN "add_tags"
         ELSE IF wk.ret = None THEN "analyze_image" ELSE "done",
         wk.pc # "idle" /\ ~wk.called_add)

\* the call of the pipeline; a step with call'.op = "process_image" is the
\* step in which the call returns, since the next step starts another call
call == CallOf(workers[Pipeline])

\* the step is the return of a process_image call that committed a pass
PassCommitted == call'.op = "process_image" /\ call'.stage = "done"

-----------------------------------------------------------------------------
(* Properties.                                                             *)

\* C1: every image_tags row refers to an image and satisfies
\* 0 < occurrence_count <= process_count of that image (PipelineSpec).
C1_OccurrenceWithinProcessCount ==
    \A x \in image_tags :
        /\ 0 < x.occurrence_count
        /\ \E r \in images :
              r.id = x.image_id /\ x.occurrence_count <= r.process_count

\* C2: a committed pass raises the occurrence_count of each distinct tag name
\* of its tag list by exactly 1 (PipelineSpec).
C2_EachTagCountedOnce ==
    [][PassCommitted =>
         \A name \in Range(call'.tags) :
             OccurrenceCount(tags', image_tags', call'.image_id, name)
               = OccurrenceCount(tags, image_tags, call'.image_id, name) + 1]_vars

\* C3: occurrence_count of every (image, tag) pair equals the number of
\* completed passes of the image whose tag set contained the tag
\* (PipelineSpec).
C3_OccurrenceEqualsPassesWithTag ==
    \A r \in images :
        \A name \in TagNames(tags) \cup UNION {p.tagset : p \in passes} :
            OccurrenceCount(tags, image_tags, r.id, name)
              = Cardinality({p \in PassesOf(r.id) : name \in p.tagset})

\* the accumulator state of the image with the given hash: its process_count
\* (0 when no pass was ever counted) and its image_tags rows
Accumulator(image_rows, image_tag_rows, md5_hash) ==
    LET ids == {r.id : r \in {r \in image_rows : r.md5_hash = md5_hash}}
    IN  [process_count |->
            IF ids = {} THEN 0
            ELSE ProcessCount(image_rows, CHOOSE i \in ids : TRUE),
         image_tags |-> {x \in image_tag_rows : x.image_id \in ids}]

\* a step of a call that has not returned (the lookup, the registration)
\* leaves the accumulator state of every image as it was
RunningCallKeepsAccumulators ==
    call'.op = "calling" =>
        \A h \in Stems :
            Accumulator(images', image_tags', h)
              = Accumulator(images, image_tags, h)

\* the courses of analyze_image in which it returns a tag list
ReturningCourses == {"no_fragment", "no_accepted_fragment", "some_accepted",
                     "all_accepted"}

\* process_count equals the number of completed passes, for every image
ProcessCountIsPassCount ==
    \A r \in images : r.process_count = Cardinality(PassesOf(r.id))

\* C4: process_count of every image equals the number of its completed
\* passes: a process_image call whose analysis returns a tag list, empty or
\* not, succeeds with the image's id and raises process_count by exactly 1,
\* in the step in which it returns (PipelineSpec).
C4_EveryPassCounted ==
    [][/\ ProcessCountIsPassCount'
       /\ call'.op = "process_image" =>
         /\ (call'.analysis \in ReturningCourses /\ call'.stage # "add_image")
               => PassCommitted
         /\ PassCommitted =>
               /\ call'.ret = call'.image_id /\ call'.ret # None
               /\ \E r \in images' : r.id = call'.ret /\ r.md5_hash = call'.md5_hash
               /\ ProcessCount(images', call'.ret)
                    = ProcessCount(images, call'.ret) + 1
               /\ passes' # passes]_vars

\* C4 witness: the second pass of an image, with an empty tag set because
\* the text held only fragments without a "tags" list or that do not parse.
C4_Witness ==
    /\ call.op = "process_image" /\ call.stage = "done"
    /\ call.analysis = "no_accepted_fragment" /\ call.tags = <<>>
    /\ ProcessCount(images, call.ret) = 2
    /\ \E x \in image_tags : x.image_id = call.ret

\* C5: a process_image call whose analysis raises returns None and leaves
\* the accumulator state of its image as it was: the same process_count (none
\* counted for an image registered by this call) and the same image_tags
\* rows, in the step in which it returns and in the steps before it
\* (PipelineSpec).
C5_FailedPassKeepsAccumulator ==
    [][/\ RunningCallKeepsAccumulators
       /\ (call'.op = "process_image" /\ call'.analysis \notin ReturningCourses) =>
         /\ call'.ret = None
         /\ call'.stage # "done"
         /\ Accumulator(images', image_tags', call'.md5_hash)
              = Accumulator(images, image_tags, call'.md5_hash)
         /\ passes' = passes]_vars

\* C5 witness: the model times out on an image that has a counted pass and
\* a tag row.
C5_Witness ==
    /\ call.op = "process_image" /\ call.ret = None
    /\ call.analysis = "request_raised" /\ call.seen
    /\ Accumulator(images, image_tags, call.md5_hash).process_count > 0
    /\ Accumulator(images, image_tags, call.md5_hash).image_tags # {}

\* the worker's add_image inserted a row during its call
InsertedRow(w) == workers[w].inserted

\* C6: a process_image call that returns None leaves the images, tags and
\* image_tags tables as they were: neither its add_image inserted a row nor
\* does the step in which it returns write (PipelineSpec).
C6_FailedPassWritesNothing ==
    [][(call'.op = "process_image" /\ call'.ret = None) =>
         /\ ~InsertedRow(Pipeline)'
         /\ images' = images
         /\ tags' = tags
         /\ image_tags' = image_tags]_vars

\* the rows of the images table with the given hash
RowsWithHash(image_rows, md5_hash) == {r \in image_rows : r.md5_hash = md5_hash}

\* the step is an add_image call
AddImageCalled == last'.op = "add_image"

\* C7: at most one images row exists per content hash, the id of a hash never
\* changes, and every add_image call, whatever the path and filename, returns
\* the id of the one row of its hash, so that all calls with one hash return
\* the same id (Spec).
C7_OneRowAndOneIdPerHash ==
    [][/\ \A r1, r2 \in images' : r1.md5_hash = r2.md5_hash => r1 = r2
       /\ \A r \in images : \E q \in images' :
             q.md5_hash = r.md5_hash /\ q.id = r.id
       /\ AddImageCalled =>
             /\ ~last'.raised
             /\ \E q \in images' :
                   q.md5_hash = last'.md5_hash /\ q.id = last'.ret]_vars

\* C8: add_image with a content hash that is not registered creates a new
\* row with that hash and process_count 0 and returns its new id, for every
\* path and filename (Spec).
C8_UnregisteredHashCreatesRow ==
    [][(AddImageCalled /\ RowsWithHash(images, last'.md5_hash) = {}) =>
         /\ ~last'.raised
         /\ \E q \in images' \ images :
               /\ q.md5_hash = last'.md5_hash
               /\ q.process_count = 0
               /\ q.id = last'.ret
               /\ \A r \in images : r.id # q.id]_vars

\* C9: add_image with a registered content hash leaves every table as it
\* was: no row is added and the row of the hash keeps its id, file_path,
\* original_filename, created_at and process_count (Spec).
C9_RegisteredHashChangesNothing ==
    [][(AddImageCalled /\ RowsWithHash(images, last'.md5_hash) # {}) =>
         /\ images' = images
         /\ tags' = tags
         /\ image_tags' = image_tags]_vars

\* C9 witness: add_image was called with the hash of a row that has a
\* counted pass, with another path and another filename, and the row is as
\* it was created.
C9_Witness ==
    /\ last.op = "add_image" /\ last.seen
    /\ \E r \in images :
          /\ r.md5_hash = last.md5_hash /\ r.id = last.ret
          /\ r.file_path # last.file_path
          /\ r.original_filename # last.original_filename
          /\ r.process_count > 0
          /\ r.created_at < Max(Times)

\* the name of the tag an image_tags row refers to is in the set
RowNamedIn(tag_rows, x, names) ==
    \E t \in tag_rows : t.id = x.tag_id /\ t.name \in names

\* C10: a pass on image I with tag set T leaves every image_tags row of I
\* whose tag is not in T, every image_tags row of another image and every
\* other images row as they were (PipelineSpec).
C10_PassTouchesOnlyItsScope ==
    [][PassCommitted =>
         /\ \A x \in image_tags :
               (x.image_id # call'.image_id
                  \/ ~RowNamedIn(tags, x, Range(call'.tags)))
               => x \in image_tags'
         /\ \A x \in image_tags' \ image_tags :
               x.image_id = call'.image_id
                 /\ RowNamedIn(tags', x, Range(call'.tags))
         /\ \A r \in images : r.id # call'.image_id => r \in images'
         /\ \A q \in images' : q.id # call'.image_id => q \in images]_vars

\* C10 witness: a pass with a nonempty tag set on an image that has a row
\* for a tag outside the set, while another image is registered.
C10_Witness ==
    /\ call.op = "process_image" /\ call.stage = "done" /\ call.tags # <<>>
    /\ \E x \in image_tags :
          x.image_id = call.image_id /\ ~RowNamedIn(tags, x, Range(call.tags))
    /\ \E r \in images : r.id # call.image_id


-----------------------------------------------------------------------------
(* Batch processing: ImagePipeline.process_directory.                      *)

\* image_dir.glob("*" + suffix): the files of the directory with the suffix
glob(dir, suffix) == {p \in dir : p.suffix = suffix}

\* image_files: the .jpg files and then the .jpeg files, each group in the
\* order the directory yields them
image_file_lists(dir) ==
    {jpg \o jpeg : jpg \in Orderings(glob(dir, ".jpg")),
                   jpeg \in Orderings(glob(dir, ".jpeg"))}

\* a loop that ends at the first image whose pass fails
next_files_until_failure(rest, image_id) ==
    IF image_id = None THEN <<>> ELSE Tail(rest)

\* the for loop of process_directory: after the call on the first of the
\* files it still has to yield, whatever the call returned, it goes on with
\* the files after it
next_files(rest, image_id) == Tail(rest)

\* `if image_id is not None: processed_ids.append(image_id)`
append_processed(processed_ids, image_id) ==
    IF image_id # None THEN Append(processed_ids, image_id)
    ELSE processed_ids

\* the directories of the model: any set of the three files
Directories == SUBSET Paths

\* the replies of the model collaborator during a batch: a failed request, a
\* text without fragment and a text with one tag
BatchReplies == {Reply("timeout", <<>>), Reply("ok", <<>>),
                 Reply("ok", <<JsonTags(<<Raw_pet>>)>>)}

\* A process_directory call is the steps of its process_image calls, one call
\* after the other, between the listing of the directory and the return.
\* While it runs, last holds its local variables: image_files, the files the
\* loop has yet to yield (rest) and processed_ids; courses and before are
\* kept for the properties: the course each analysis took, and the images
\* table as it was when the batch began.
BatchRunning == last.op = "process_directory" /\ last.running

\* process_directory(): processed_ids = [] and the listing of the directory
ListFiles ==
    /\ ~BatchRunning
    /\ workers[Pipeline].pc = "idle"
    /\ \E dir \in Directories :
        \E image_files \in image_file_lists(dir) :
          last' = [op |-> "process_directory", running |-> TRUE,
                   image_files |-> image_files, rest |-> image_files,
                   courses |-> <<>>, processed_ids |-> <<>>,
                   before |-> images]
    /\ UNCHANGED <<images, tags, image_tags, sqlite_sequence, passes, workers>>

\* the loop calls process_image on its next file
ProcessNextFile ==
    /\ BatchRunning
    /\ last.rest # <<>>
    /\ workers[Pipeline].pc = "idle"
    /\ LookupFile(Pipeline, Head(last.rest))

\* the call has returned: the loop body appends its id and the loop goes on
CollectId ==
    /\ BatchRunning
    /\ workers[Pipeline].pc = "returned"
    /\ last' = [last EXCEPT
                  !.rest = next_files(last.rest, workers[Pipeline].ret),
                  !.courses = Append(@, workers[Pipeline].analysis),
                  !.processed_ids =
                      append_processed(@, workers[Pipeline].ret)]
    /\ workers' = [workers EXCEPT ![Pipeline] = IdleWorker]
    /\ UNCHANGED <<images, tags, image_tags, sqlite_sequence, passes>>

\* the loop is over: return processed_ids
ReturnProcessed ==
    /\ BatchRunning
    /\ last.rest = <<>>
    /\ workers[Pipeline].pc = "idle"
    /\ last' = [last EXCEPT !.running = FALSE]
    /\ UNCHANGED <<images, tags, image_tags, sqlite_sequence, passes, workers>>

\* main: process_directory, round after round
BatchNext ==
    \/ ListFiles
    \/ ProcessNextFile
    \/ Register(Pipeline)
    \/ AnalyzeAndStore(Pipeline, BatchReplies)
    \/ CollectId
    \/ ReturnProcessed

\* the database under repeated batches (main: --repeat rounds)
BatchSpec == Init /\ [][BatchNext]_vars

\* the step is the end of a loop iteration
IdCollected ==
    /\ BatchRunning /\ BatchRunning'
    /\ Len(last'.courses) = Len(last.courses) + 1

\* the step is the return of a process_directory call
BatchRan == BatchRunning /\ ~BatchRunning'

\* the positions of the files of the batch whose analysis returned a tag list
SucceededFiles(courses) ==
    LET positions == [k \in DOMAIN courses |-> k]
        Returned(k) == courses[k] \in ReturningCourses
    IN  SelectSeq(positions, Returned)

\* the id of the images row of the file's hash
RowIdOfFile(image_rows, path) ==
    (CHOOSE r \in image_rows : r.md5_hash = get_hash_from_filename(path)).id

\* C11: a batch runs process_image once for every image file, in order,
\* whatever the outcome of the earlier files: a file's pass succeeds exactly
\* when its own analysis returns, and the loop goes on to the next file either
\* way; the returned list holds the ids of the succeeded files, in order;
\* every success stays counted whatever fails after it, and no step undoes a
\* row written before or during the batch (BatchSpec).
C11_BatchNeverAborts ==
    [][/\ \A r \in images : \E r2 \in images' :
            /\ r2.id = r.id /\ r2.md5_hash = r.md5_hash
            /\ r2.process_count >= r.process_count
       /\ \A x \in image_tags : \E x2 \in image_tags' :
            /\ x2.image_id = x.image_id /\ x2.tag_id = x.tag_id
            /\ x2.occurrence_count >= x.occurrence_count
       /\ tags \subseteq tags'
       /\ IdCollected =>
            /\ call.ret # None <=> call.analysis \in ReturningCourses
            /\ call.file_path = path_str(Head(last.rest))
            /\ last'.rest = Tail(last.rest)
       /\ BatchRan =>
            LET image_files == last'.image_files
                succeeded == SucceededFiles(last'.courses)
            IN  /\ Len(last'.courses) = Len(image_files)
                /\ \A k \in DOMAIN image_files :
                     \E r \in images' :
                        r.md5_hash = get_hash_from_filename(image_files[k])
                /\ last'.processed_ids =
                     [j \in DOMAIN succeeded |->
                        RowIdOfFile(images', image_files[succeeded[j]])]
                /\ \A r \in images' :
                     r.process_count =
                        ProcessCount(last'.before, r.id) +
                        Cardinality({j \in DOMAIN succeeded :
                            get_hash_from_filename(image_files[succeeded[j]])
                                = r.md5_hash})]_vars

\* a batch of three files has returned; its second pass failed, between two
\* passes that succeeded
C11_Witness ==
    /\ last.op = "process_directory" /\ ~last.running
    /\ Len(last.image_files) = 3
    /\ Len(last.courses) = 3
    /\ last.courses[1] \in ReturningCourses
    /\ last.courses[2] \notin ReturningCourses
    /\ last.courses[3] \in ReturningCourses
    /\ Len(last.processed_ids) = 2

-----------------------------------------------------------------------------
(* Reading the tags of an image: DatabaseManager.get_image_tags.           *)

\* the rows of the join of tags, image_tags and images for the image; the
\* confidence occurrence_count / process_count is kept as the pair of its
\* terms
joined_tag_rows(db, image_id) ==
    {[name |-> t.name, tag_id |-> t.id,
      occurrence_count |-> x.occurrence_count,
      process_count |-> r.process_count,
      confidence |-> <<x.occurrence_count, r.process_count>>] :
        <<t, x, r>> \in {y \in db.tags \X db.image_tags \X db.images :
                            /\ y[1].id = y[2].tag_id
                            /\ y[2].image_id = y[3].id
                            /\ y[2].image_id = image_id}}

\* a / b > c / d; a division by 0 is NULL, which sorts after every number
\* under DESC and ties with NULL
confidence_greater(c1, c2) ==
    /\ c1[2] # 0
    /\ c2[2] = 0 \/ c1[1] * c2[2] > c2[1] * c1[2]

\* ORDER BY confidence DESC: the statement names no second key; SQLite reads
\* the image_tags rows of the image through the index of UNIQUE(image_id,
\* tag_id) and its sort keeps that order among equal confidences, so ties come
\* out by ascending tag id
listed_before(row1, row2) ==
    \/ confidence_greater(row1.confidence, row2.confidence)
    \/ /\ ~confidence_greater(row2.confidence, row1.confidence)
       /\ row1.tag_id < row2.tag_id

\* get_image_tags: the list of [name, occurrence_count, process_count,
\* confidence]
get_image_tags(db, image_id) ==
    LET rows == joined_tag_rows(db, image_id)
        sorted == CHOOSE o \in Orderings(rows) :
                     \A i, j \in DOMAIN o : i < j => listed_before(o[i], o[j])
    IN  [i \in DOMAIN sorted |->
            [name |-> sorted[i].name,
             occurrence_count |-> sorted[i].occurrence_count,
             process_count |-> sorted[i].process_count,
             confidence |-> sorted[i].confidence]]

\* DatabaseManager.get_image_tags(image_id)
GetImageTags ==
    \E image_id \in DirectImageIds(DB) :
        /\ last' = [op |-> "get_image_tags", image_id |-> image_id,
                    ret |-> get_image_tags(DB, image_id)]
        /\ UNCHANGED <<images, tags, image_tags, sqlite_sequence, passes, workers>>

\* the replies of the model collaborator while the gallery reads: a failed
\* request and two texts with one tag each
QueryReplies == {Reply("timeout", <<>>), Reply("ok", <<JsonTags(<<Raw_pet>>)>>),
                 Reply("ok", <<JsonTags(<<Raw_a_b>>)>>)}

\* the gallery reads between any two steps of the pipeline
QueryNext ==
    \/ \E w \in PipelineWorkers :
          Lookup(w) \/ Register(w) \/ AnalyzeAndStore(w, QueryReplies)
    \/ GetImageTags

\* the pipeline fills the database and the gallery reads it
QuerySpec == Init /\ [][QueryNext]_vars

\* the characters of the model in the order of their code points, the order
\* of a comparison of names
CodePointOrder ==
    <<" ", "A", "B", "E", "P", "T", "_", "a", "b", "e", "p", "t">>

CodePoint(c) == CHOOSE i \in DOMAIN CodePointOrder : CodePointOrder[i] = c

\* name1 < name2
RECURSIVE NameBefore(_, _)
NameBefore(name1, name2) ==
    IF name2 = <<>> THEN FALSE
    ELSE IF name1 = <<>> THEN TRUE
    ELSE IF Head(name1) # Head(name2)
         THEN CodePoint(Head(name1)) < CodePoint(Head(name2))
    ELSE NameBefore(Tail(name1), Tail(name2))

\* C12: get_image_tags lists the tags by confidence descending and, among
\* equal confidences, by tag name ascending (QuerySpec).
C12_OrderedByConfidenceThenName ==
    last.op = "get_image_tags" =>
        \A i, j \in DOMAIN last.ret :
            i < j =>
                \/ confidence_greater(last.ret[i].confidence,
                                      last.ret[j].confidence)
                \/ /\ ~confidence_greater(last.ret[j].confidence,
                                          last.ret[i].confidence)
                   /\ NameBefore(last.ret[i].name, last.ret[j].name)

-----------------------------------------------------------------------------
(* The analysis of a response text, match by match.                        *)
(*                                                                         *)
(* A match of the brace pattern is described by its text:                  *)
(*   escaped_newline   it holds the two characters backslash, n            *)
(*   truncated_escape  it holds a backslash sequence that unicode-escape   *)
(*                     cannot decode and JSON does not know, such as \x    *)
(*                     or \u without their hex digits                      *)
(*   parse             what json.loads makes of the text, its escapes      *)
(*                     aside: Broken, JsonNoTags, JsonTagsNotList or       *)
(*                     JsonTags(elems)                                     *)

MaxFragments == 2

Match(escaped_newline, truncated_escape, parse) ==
    [escaped_newline |-> escaped_newline,
     truncated_escape |-> truncated_escape, parse |-> parse]

\* json_str.encode().decode('unicode-escape') runs only when the match holds
\* an escaped newline, and raises UnicodeDecodeError on a truncated escape
unescape_raises(match) == match.escaped_newline /\ match.truncated_escape

\* the fragment the loop body sees in a match: without an escaped newline a
\* truncated escape reaches json.loads, which raises JSONDecodeError
fragment_of(match) ==
    IF unescape_raises(match) THEN BadEscape
    ELSE IF match.truncated_escape THEN Broken
    ELSE match.parse

fragments_of(matches) == [i \in DOMAIN matches |-> fragment_of(matches[i])]

\* what json.loads makes of the matches of the model
Parses ==
    {Broken, JsonNoTags, JsonTagsNotList, JsonTags(<<>>),
     JsonTags(<<Raw_pet, Raw_pet>>), JsonTags(<<Raw_a_b, Raw_pet>>),
     JsonTags(<<Raw_pet, IntElem>>), JsonTags(<<ListElem>>)}

Matches == {Match(n, x, p) : n \in BOOLEAN, x \in BOOLEAN, p \in Parses}

\* the response texts of the model: up to MaxFragments matches
ResponseTexts == UNION {[1..n -> Matches] : n \in 0..MaxFragments}

\* a response text is given
ExtractorInit ==
    /\ images = init_database.images
    /\ tags = init_database.tags
    /\ image_tags = init_database.image_tags
    /\ sqlite_sequence = init_database.sqlite_sequence
    /\ passes = {}
    /\ last \in {[op |-> "response_text", text |-> text] :
                    text \in ResponseTexts}
    /\ workers = [w \in Workers |-> IdleWorker]

\* analyze_image from the extraction on (lines 143-158) on the given text
AnalyzeText ==
    /\ last.op = "response_text"
    /\ \E reply \in {Reply("ok", fragments_of(last.text))} :
         \E order \in AnalysisOrders(reply) :
            last' = [op |-> "analyze_text", text |-> last.text,
                     extracted |-> extract_json_from_text(reply.text),
                     order |-> order,
                     ret |-> analyze_image(reply, order)]
    /\ UNCHANGED <<images, tags, image_tags, sqlite_sequence, passes, workers>>

ExtractorNext == AnalyzeText

ExtractorSpec == ExtractorInit /\ [][ExtractorNext]_vars

\* the match parses to an object whose "tags" is a list
ParsesToTagList(match) ==
    /\ ~match.truncated_escape
    /\ match.parse.form = "json" /\ match.parse.tags = "list"

\* C13: the extractor raises for no text: it returns a result, every match
\* that parses to an object with a "tags" list is in it, and a match that
\* cannot be unescaped or parsed is dropped alone (ExtractorSpec).
C13_ExtractorNeverRaises ==
    last.op = "analyze_text" =>
        /\ ~last.extracted.raised
        /\ \A i \in DOMAIN last.text :
              ParsesToTagList(last.text[i]) =>
                 \E j \in DOMAIN last.extracted.json_objects :
                    last.extracted.json_objects[j] = last.text[i].parse

\* the match parses to an object whose "tags" is a list of strings
HasStringTags(match) ==
    /\ ParsesToTagList(match)
    /\ \A e \in Range(match.parse.elems) : e.kind = "str"

\* every match of the text parses to an object
AllMatchesParse(text) ==
    \A i \in DOMAIN text :
        ~text[i].truncated_escape /\ text[i].parse.form = "json"

\* C14: in a text whose matches all parse, a match whose "tags" is missing,
\* is no list or is a list with an element that is no string raises no error
\* and contributes no tag: the analysis returns the canonical names of the
\* tags of the matches whose "tags" is a list of strings (ExtractorSpec).
C14_MalformedTagsRejectedSilently ==
    (last.op = "analyze_text" /\ AllMatchesParse(last.text)) =>
        /\ ~last.ret.raised
        /\ Range(last.ret.tags) =
              {normalize_tag(e.chars) :
                 e \in UNION {Range(last.text[i].parse.elems) :
                                i \in {k \in DOMAIN last.text :
                                          HasStringTags(last.text[k])}}}

\* the positions of the matches the extractor accepts
AcceptedMatches(text) ==
    LET positions == [i \in DOMAIN text |-> i]
        Accepted(i) == ParsesToTagList(text[i])
    IN  SelectSeq(positions, Accepted)

\* C15: for every text the analysis returns a tag list; the extracted
\* objects are the matches that parse with a "tags" list, left to right; the
\* tag set is the union of their "tags" lists, each tag listed once however
\* often it occurs within or across matches; matches that do not parse add
\* and remove nothing (ExtractorSpec).
C15_ExtractedSetIsUnion ==
    last.op = "analyze_text" =>
        LET accepted == AcceptedMatches(last.text)
            union == UNION {Range(last.text[accepted[j]].parse.elems) :
                               j \in DOMAIN accepted}
        IN  /\ ~last.ret.raised
            /\ last.extracted.json_objects =
                  [j \in DOMAIN accepted |-> last.text[accepted[j]].parse]
            /\ Range(last.order) = union
            /\ Len(last.order) = Cardinality(union)
            /\ last.ret.tags =
                  [k \in DOMAIN last.order |->
                      normalize_tag(last.order[k].chars)]

-----------------------------------------------------------------------------
(* Properties of the store and of the normalizer.                          *)

\* every completed pass of the image had the empty tag set
OnlyEmptyPasses(log, image_id) ==
    \A p \in log : p.image_id = image_id => p.tagset = {}

\* C16: a pass with the empty tag list adds no tags row and no image_tags
\* row and changes none; an image all of whose passes had the empty tag set
\* has process_count equal to the number of its passes and no image_tags row
\* (PipelineSpec).
C16_EmptyPassCreatesNoRows ==
    [][/\ (PassCommitted /\ call'.tags = <<>>) =>
            /\ tags' = tags
            /\ image_tags' = image_tags
            /\ sqlite_sequence'.tags = sqlite_sequence.tags
            /\ ProcessCount(images', call'.image_id)
                  = ProcessCount(images, call'.image_id) + 1
       /\ \A r \in images' :
            OnlyEmptyPasses(passes', r.id) =>
               /\ r.process_count =
                     Cardinality({p \in passes' : p.image_id = r.id})
               /\ ~\E x \in image_tags' : x.image_id = r.id]_vars

\* an image after its second pass, both with the empty tag set
C16_Witness ==
    /\ call.op = "process_image" /\ call.stage = "done" /\ call.tags = <<>>
    /\ OnlyEmptyPasses(passes, call.image_id)
    /\ ProcessCount(images, call.image_id) = 2
    /\ ~\E x \in image_tags : x.image_id = call.image_id

\* the raw tags of the normalizer check: every string of up to MaxTagLen
\* characters over letters of both cases, a digit, the underscore and the
\* space
MaxTagLen == 3

TagAlphabet == {"a", "A", "b", "B", "1", "_", " "}

RawTags == UNION {[1..n -> TagAlphabet] : n \in 0..MaxTagLen}

\* a raw tag is given
NormalizerInit ==
    /\ images = init_database.images
    /\ tags = init_database.tags
    /\ image_tags = init_database.image_tags
    /\ sqlite_sequence = init_database.sqlite_sequence
    /\ passes = {}
    /\ last \in {[op |-> "raw_tag", raw |-> raw] : raw \in RawTags}
    /\ workers = [w \in Workers |-> IdleWorker]

\* the two list comprehensions of analyze_image on the given tag
NormalizeTag ==
    /\ last.op = "raw_tag"
    /\ last' = [op |-> "normalize", raw |-> last.raw,
                ret |-> normalize_tag(last.raw)]
    /\ UNCHANGED <<images, tags, image_tags, sqlite_sequence, passes, workers>>

NormalizerNext == NormalizeTag

NormalizerSpec == NormalizerInit /\ [][NormalizerNext]_vars

\* the surface variants of a tag differ in letter case and in underscore for
\* space: all of them have the same fold
SurfaceFold(s) ==
    [i \in DOMAIN s |-> IF s[i] = "_" THEN " " ELSE ToLower(s[i])]

\* C17: normalizing a canonical name returns it unchanged, and a raw tag has
\* the canonical name of its fold, so that all surface variants of a tag
\* (letter case, underscore or space) have one canonical name
\* (NormalizerSpec).
C17_NormalizeIdempotentAndMerging ==
    last.op = "normalize" =>
        /\ normalize_tag(last.ret) = last.ret
        /\ last.ret = normalize_tag(SurfaceFold(last.raw))
        /\ SurfaceFold(last.ret) = SurfaceFold(last.raw)

\* "a_b", a variant of "A B", is normalized to "A B"
C17_Witness ==
    /\ last.op = "normalize"
    /\ last.raw = <<"a", "_", "b">>
    /\ last.ret = <<"A", " ", "B">>

\* C18: a canonical name has no leading and no trailing whitespace
\* (NormalizerSpec).
C18_CanonicalNameIsTrimmed ==
    (last.op = "normalize" /\ last.ret # <<>>) =>
        /\ last.ret[1] # " "
        /\ last.ret[Len(last.ret)] # " "

\* C19: the tags table has at most one row per name and per id; every stored
\* name is canonical (normalizing returns it unchanged); a committed pass files
\* each of its tags under the one row of the tag's name, whatever the image,
\* so raw tags with one canonical name share one tag id across all images; no
\* tags row is ever deleted or changed (PipelineSpec).
C19_OneTagRowPerCanonicalName ==
    [][/\ \A t1, t2 \in tags' :
            (t1.name = t2.name \/ t1.id = t2.id) => t1 = t2
       /\ \A t \in tags' : normalize_tag(t.name) = t.name
       /\ tags \subseteq tags'
       /\ PassCommitted =>
            \A k \in DOMAIN call'.tags :
               \E t \in tags' :
                  /\ t.name = call'.tags[k]
                  /\ \A t0 \in tags : t0.name = t.name => t0.id = t.id
                  /\ \E x \in image_tags' :
                        x.image_id = call'.image_id /\ x.tag_id = t.id]_vars

\* a pass files a tag of its image under the tags row that another image
\* already uses
C19_Witness ==
    /\ call.op = "process_image" /\ call.stage = "done"
    /\ \E t \in tags, x1, x2 \in image_tags :
          /\ t.name \in Range(call.tags)
          /\ x1.tag_id = t.id /\ x2.tag_id = t.id
          /\ x1.image_id = call.image_id /\ x2.image_id # call.image_id

-----------------------------------------------------------------------------
(* Concurrent workers.  Each worker runs process_image calls on the shared *)
(* database file.  Every DatabaseManager method opens its own connection   *)
(* and runs one transaction; SQLite admits one writer at a time and a      *)
(* second writer waits for the lock, so the transactions of the workers    *)
(* interleave as whole steps.  A call is the steps                         *)
(*   Lookup      get_image_by_hash                                         *)
(*   Register    add_image, when the lookup found nothing                  *)
(*   Tag         analyze_image, which touches no shared state, and         *)
(*               add_tags, then the return                                 *)

\* the replies of the model collaborator to the workers: a failed request, a
\* text with one tag and a text whose two raw tags share one canonical name
ConcurrentReplies ==
    {Reply("timeout", <<>>), Reply("ok", <<JsonTags(<<Raw_pet>>)>>),
     Reply("ok", <<JsonTags(<<Raw_a_b, Raw_A_B>>)>>)}

\* worker w analyzes its image, stores the tags and returns
Tag(w) == AnalyzeAndStore(w, ConcurrentReplies)

ConcurrentNext == \E w \in Workers : Lookup(w) \/ Register(w) \/ Tag(w)

ConcurrentSpec == Init /\ [][ConcurrentNext]_vars

\* the worker has called add_image in its current or last call
Registered(w) == workers[w].called_add

\* C20: with any interleaving of the workers, every add_image call made after
\* a lookup that found nothing returns: the hash then has exactly one images
\* row and the call obtained that row's id, whether it inserted the row or
\* lost the race and read the id back (ConcurrentSpec).
C20_ConcurrentRegistrationConverges ==
    \A w \in Workers :
        Registered(w) =>
            LET rows == RowsWithHash(images,
                                     get_hash_from_filename(workers[w].path))
            IN  /\ ~workers[w].add_raised
                /\ Cardinality(rows) = 1
                /\ \A r \in rows : workers[w].image_id = r.id
                /\ workers[w].pc = "returned" =>
                      workers[w].ret \in {None, workers[w].image_id}

\* both workers looked the same hash up before either registered it; one
\* inserted the row and the other obtained the same id without inserting
C20_Witness ==
    \E w1, w2 \in Workers :
        /\ w1 # w2
        /\ Registered(w1) /\ Registered(w2)
        /\ get_hash_from_filename(workers[w1].path)
              = get_hash_from_filename(workers[w2].path)
        /\ workers[w1].inserted /\ ~workers[w2].inserted
        /\ workers[w1].image_id = workers[w2].image_id
        /\ workers[w2].image_id # None

\* C21: under every interleaving of the workers, process_count of every image
\* equals the number of its committed passes, every occurrence_count equals
\* the number of committed passes of the image that contain the tag, and
\* occurrence_count <= process_count in every committed state
\* (ConcurrentSpec).
C21_ConcurrentPassesSerialize ==
    /\ \A r \in images : r.process_count = Cardinality(PassesOf(r.id))
    /\ \A x \in image_tags :
          /\ x.occurrence_count <= ProcessCount(images, x.image_id)
          /\ \A t \in tags :
                t.id = x.tag_id =>
                   x.occurrence_count =
                      Cardinality({p \in PassesOf(x.image_id) :
                                      t.name \in p.tagset})

-----------------------------------------------------------------------------
(* Storage errors inside add_tags.                                         *)

\* add_tags on a connection in autocommit mode: the statements executed
\* before the error stay written
add_tags_interrupted_autocommit(db, image_id, tag_list, k) ==
    [db |-> add_tag_list(increment_process_count(db, image_id), image_id,
                         SubSeq(tag_list, 1, k)),
     raised |-> TRUE]

\* add_tags in which the statement that follows the process_count update and
\* the upserts of the first k tags raises sqlite3.Error: the statements so far
\* ran in the transaction of the connection, the exception leaves the `with`
\* block, which rolls the transaction back, and is raised again:
\* [db, raised]
add_tags_interrupted(db, image_id, tag_list, k) ==
    LET uncommitted == add_tag_list(increment_process_count(db, image_id),
                                    image_id, SubSeq(tag_list, 1, k))
        rolled_back == db
    IN  [db |-> rolled_back, raised |-> TRUE]

\* worker w analyzes its image and calls add_tags, which meets the storage
\* error after k tags; process_image catches the exception and returns None
TagStorageError(w) ==
    /\ workers[w].pc = "analyze"
    /\ \E reply \in ConcurrentReplies :
        \E order \in AnalysisOrders(reply) :
         \E tags_data \in {analyze_image(reply, order)} :
          \E k \in 0..Len(tags_data.tags) :
           \E r \in {add_tags_interrupted(DB, workers[w].image_id,
                                          tags_data.tags, k)} :
            /\ ~tags_data.raised
            /\ Bounded(r.db)
            /\ Store(r.db)
            /\ passes' = passes
            /\ workers' = [workers EXCEPT ![w] =
                  [@ EXCEPT !.pc = "returned",
                            !.analysis = analysis_course(reply),
                            !.fault = <<k, Len(tags_data.tags)>>,
                            !.ret = process_image_returns(r.raised,
                                                          workers[w].image_id)]]
    /\ UNCHANGED last

FaultNext ==
    \E w \in PipelineWorkers :
        Lookup(w) \/ Register(w) \/ Tag(w) \/ TagStorageError(w)

\* the pipeline on a store that may fail
FaultSpec == Init /\ [][FaultNext]_vars

\* the step is the return of a call of worker w whose add_tags met a storage
\* error
StorageErrorMet(w) ==
    /\ workers[w].pc = "analyze" /\ workers'[w].pc = "returned"
    /\ workers'[w].fault # NoFault

\* C22: when add_tags meets a storage error, after the process_count update
\* or after any number of its tags, process_image returns None and the
\* committed state shows none of the writes of the call: images with their
\* process_count, tags, image_tags and the id counters are as before the call,
\* for the image of the call and for every other image (FaultSpec).
C22_AddTagsAllOrNothing ==
    [][\A w \in Workers :
         StorageErrorMet(w) =>
            /\ workers'[w].ret = None
            /\ images' = images
            /\ tags' = tags
            /\ image_tags' = image_tags
            /\ sqlite_sequence' = sqlite_sequence
            /\ passes' = passes]_vars

\* the error came after the first of two tags, on an image that has a
\* committed pass and tag rows
C22_Witness ==
    \E w \in Workers :
        /\ workers[w].pc = "returned"
        /\ workers[w].fault = <<1, 2>>
        /\ workers[w].ret = None
        /\ ProcessCount(images, workers[w].image_id) = 1
        /\ \E x \in image_tags : x.image_id = workers[w].image_id

-----------------------------------------------------------------------------
(* Lifecycle of an image and outcome of process_image.                     *)

\* C23: in every step a registered hash stays registered with the same id,
\* no process_count and no occurrence_count decreases, and a process_image
\* call on a registered image runs the analysis and, when the analysis
\* returns, commits a further pass: it returns the id and process_count rises
\* by 1 (PipelineSpec).
C23_LifecycleIsMonotone ==
    [][/\ \A r \in images : \E r2 \in images' :
            /\ r2.md5_hash = r.md5_hash /\ r2.id = r.id
            /\ r2.process_count >= r.process_count
       /\ \A r \in images, r2 \in images' :
            r2.md5_hash = r.md5_hash => r2.id = r.id
       /\ \A x \in image_tags : \E x2 \in image_tags' :
            /\ x2.image_id = x.image_id /\ x2.tag_id = x.tag_id
            /\ x2.occurrence_count >= x.occurrence_count
       /\ (call'.op = "process_image" /\ call'.seen) =>
              call'.analysis # ""
       /\ (/\ call'.op = "process_image" /\ call'.seen
           /\ call'.analysis \in ReturningCourses) =>
              /\ call'.ret # None
              /\ \E r \in images :
                    r.md5_hash = call'.md5_hash /\ r.id = call'.ret
              /\ ProcessCount(images', call'.ret)
                    = ProcessCount(images, call'.ret) + 1]_vars

\* a registered image with one pass is processed again and has two
C23_Witness ==
    /\ call.op = "process_image" /\ call.seen /\ call.stage = "done"
    /\ call.ret # None
    /\ ProcessCount(images, call.ret) = 2
    /\ Cardinality(PassesOf(call.ret)) = 2

\* C24: a process_image call returns an id exactly when it committed one
\* pass for the image of the file's hash: process_count of that image rose by
\* exactly 1 and the id is the id of the row of the hash; it returns None
\* exactly when that process_count is as before; no other image is touched
\* and no exception leaves the call; the steps before the return count no
\* pass and add at most the row of the file's hash (PipelineSpec).
C24_OutcomeMatchesStateChange ==
    [][/\ call'.op = "calling" =>
            /\ TotalProcessCount(images') = TotalProcessCount(images)
            /\ \A r \in images : r \in images'
            /\ \A q \in images' \ images : q.md5_hash = call'.md5_hash
       /\ call'.op = "process_image" =>
        LET before == Accumulator(images, image_tags,
                                  call'.md5_hash).process_count
            after == Accumulator(images', image_tags',
                                 call'.md5_hash).process_count
        IN  /\ after \in {before, before + 1}
            /\ call'.ret # None <=> after = before + 1
            /\ call'.ret = None <=> after = before
            /\ call'.ret # None =>
                  \E r \in images' :
                     r.md5_hash = call'.md5_hash /\ r.id = call'.ret
            /\ \A r \in images : r.md5_hash # call'.md5_hash => r \in images'
            /\ ~call'.raised]_vars

\* a call on an image with a committed pass fails and returns None, the count
\* staying at 1
C24_Witness ==
    /\ call.op = "process_image" /\ call.seen
    /\ call.ret = None /\ call.stage = "analyze_image"
    /\ call.analysis = "replace_raised"
    /\ ProcessCount(images, call.image_id) = 1

\* C25: after any sequence of add_image and add_tags calls every image_tags
\* row refers to an images row and to a tags row, and an add_tags call with
\* an image id that no row has leaves image_tags and the pass counts as they
\* were (Spec).
C25_ReferentialIntegrity ==
    [][/\ \A x \in image_tags' :
            /\ \E r \in images' : r.id = x.image_id
            /\ \E t \in tags' : t.id = x.tag_id
       /\ (last'.op = "add_tags" /\ ~last'.seen) =>
            /\ image_tags' = image_tags
            /\ images' = images]_vars


=============================================================================
